---- MODULE Spec2Model ----
(***************************************************************************)
(* Model of wasm-build/php/docker-build-files/pib_eval.c.                  *)
(*                                                                         *)
(* The file exports one function to the WebAssembly host:                  *)
(*                                                                         *)
(*   bool pib_init(zend_object *object)                                    *)
(*   {                                                                     *)
(*       bool a = object->handlers->dtor_obj != zend_objects_destroy_object;*)
(*       return a;                                                         *)
(*   }                                                                     *)
(*                                                                         *)
(* The model holds the part of the runtime heap the function can reach     *)
(* (objects, their handler-table pointer, the tables' dtor_obj slot), the  *)
(* activation of pib_init (parameter, local, return value, position) and   *)
(* the loads the activation performs.  The runtime that owns the objects   *)
(* acts only between calls: the build is single-threaded and a call is     *)
(* synchronous.                                                            *)
(***************************************************************************)
EXTENDS Integers, Sequences, FiniteSets, TLC

\* ---------------------------------------------------------------- bounds
NumObjects == 2
NumTables == 2
NumCustom == 2

\* ------------------------------------------------------------- addresses
\* The null pointer.
NULL == 0

\* Object slots of the heap; a handle is NULL or the address of a slot.
Objects == 1..NumObjects
Handles == {NULL} \cup Objects

\* Address of the runtime's standard destruction handler.
zend_objects_destroy_object == 0

\* Addresses of the other destruction handlers a class may install.
CustomHandlers == 1..NumCustom
Handlers == {zend_objects_destroy_object} \cup CustomHandlers

\* Handler tables.  Table 1 is the runtime's std_object_handlers, which is
\* constant; the others belong to classes that install their own handlers.
StdTable == 1
Tables == 1..NumTables
ClassTables == Tables \ {StdTable}

\* Another slot of the handler table, which pib_init never looks at.
free_obj(t) == IF t = StdTable THEN "zend_object_std_dtor" ELSE "class_free_obj"

VARIABLES
    live,       \* the object slots that hold an object
    handlers,   \* object->handlers: the object's handler table
    dtor_obj,   \* handlers->dtor_obj of each table
    pc,         \* position of the activation of pib_init
    object,     \* parameter of pib_init
    a,          \* local of pib_init
    retval,     \* value returned to the host
    reads,      \* loads of runtime state made by the current activation
    seen        \* what the host saw at the latest completed call on a valid object

vars == <<live, handlers, dtor_obj, pc, object, a, retval, reads, seen>>
heap == <<live, handlers, dtor_obj>>
frame == <<pc, object, a, retval, reads>>

\* The destruction handler registered for object o.
DtorOf(o) == dtor_obj[handlers[o]]

Init ==
    /\ live = {}
    /\ handlers = [o \in Objects |-> StdTable]
    /\ dtor_obj = [t \in Tables |-> zend_objects_destroy_object]
    /\ pc = "idle"
    /\ object = NULL
    /\ a = FALSE
    /\ retval = FALSE
    /\ reads = <<>>
    /\ seen = {}

\* ------------------------------------------------- the external runtime
\* The runtime allocates an object of a class whose handler table is t.
CreateObject(o, t) ==
    /\ pc = "idle"
    /\ o \notin live
    /\ live' = live \cup {o}
    /\ handlers' = [handlers EXCEPT ![o] = t]
    /\ UNCHANGED <<dtor_obj, frame, seen>>

\* The runtime destroys and frees the object.  Handles to it dangle from
\* here on.
Release(o) ==
    /\ pc = "idle"
    /\ o \in live
    /\ live' = live \ {o}
    /\ handlers' = [handlers EXCEPT ![o] = StdTable]
    /\ seen' = {s \in seen : s.obj # o}
    /\ UNCHANGED <<dtor_obj, frame>>

\* The runtime points the object at another handler table.
SetHandlers(o, t) ==
    /\ pc = "idle"
    /\ o \in live
    /\ handlers[o] # t
    /\ handlers' = [handlers EXCEPT ![o] = t]
    /\ UNCHANGED <<live, dtor_obj, frame, seen>>

\* A class installs handler f in the dtor_obj slot of its table: an override
\* when f is a custom handler, a restore when f is the standard one.
SetDtor(t, f) ==
    /\ pc = "idle"
    /\ t \in ClassTables
    /\ dtor_obj[t] # f
    /\ dtor_obj' = [dtor_obj EXCEPT ![t] = f]
    /\ UNCHANGED <<live, handlers, frame, seen>>

\* ------------------------------------------------------------- the host
\* The host calls the export with handle h.  Nothing checks the handle.
Call(h) ==
    /\ pc = "idle"
    /\ pc' = "line20"
    /\ object' = h
    /\ reads' = <<>>
    /\ UNCHANGED <<heap, a, retval, seen>>

\* The host takes the result of a call (or the trap that ended it) and goes
\* on; it remembers what it saw of a valid object, until
\* that object is freed.
Resume ==
    /\ pc \in {"done", "trap"}
    /\ pc' = "idle"
    /\ seen' = IF pc = "done" /\ object \in live
               THEN {[obj |-> object, table |-> handlers[object],
                      dtor |-> DtorOf(object), res |-> retval]}
               ELSE seen
    /\ object' = NULL
    /\ a' = FALSE
    /\ retval' = FALSE
    /\ reads' = <<>>
    /\ UNCHANGED heap

\* ------------------------------------------------------------- pib_init
\* Line 20 with == in place of !=.
Line20_eq ==
    /\ pc = "line20"
    /\ IF object \in live
       THEN /\ reads' = <<"object->handlers", "handlers->dtor_obj">>
            /\ a' = (dtor_obj[handlers[object]] = zend_objects_destroy_object)
            /\ pc' = "line21"
       ELSE /\ reads' = <<"object->handlers">>
            /\ \/ pc' = "trap" /\ a' = a
               \/ pc' = "line21" /\ a' \in BOOLEAN
    /\ UNCHANGED <<heap, object, retval, seen>>

\* Line 20 testing for one known custom handler instead of for any handler
\* other than the standard one.
Line20_known_custom ==
    /\ pc = "line20"
    /\ IF object \in live
       THEN /\ reads' = <<"object->handlers", "handlers->dtor_obj">>
            /\ a' = (dtor_obj[handlers[object]] = 1)
            /\ pc' = "line21"
       ELSE /\ reads' = <<"object->handlers">>
            /\ \/ pc' = "trap" /\ a' = a
               \/ pc' = "line21" /\ a' \in BOOLEAN
    /\ UNCHANGED <<heap, object, retval, seen>>

\* Line 20 that also initialises: after the comparison it points the object
\* back at the standard handler table.
Line20_reset ==
    /\ pc = "line20"
    /\ IF object \in live
       THEN /\ reads' = <<"object->handlers", "handlers->dtor_obj">>
            /\ a' = (dtor_obj[handlers[object]] # zend_objects_destroy_object)
            /\ handlers' = [handlers EXCEPT ![object] = StdTable]
            /\ pc' = "line21"
       ELSE /\ reads' = <<"object->handlers">>
            /\ handlers' = handlers
            /\ \/ pc' = "trap" /\ a' = a
               \/ pc' = "line21" /\ a' \in BOOLEAN
    /\ UNCHANGED <<live, dtor_obj, object, retval, seen>>

\* Line 20 with = in place of !=: the standard handler is stored into the
\* slot, and the value stored, which is not null, is the result.
Line20_assign ==
    /\ pc = "line20"
    /\ IF object \in live
       THEN /\ reads' = <<"object->handlers">>
            /\ dtor_obj' = [dtor_obj EXCEPT ![handlers[object]] =
                               zend_objects_destroy_object]
            /\ a' = TRUE
            /\ pc' = "line21"
       ELSE /\ reads' = <<"object->handlers">>
            /\ dtor_obj' = dtor_obj
            /\ \/ pc' = "trap" /\ a' = a
               \/ pc' = "line21" /\ a' \in BOOLEAN
    /\ UNCHANGED <<live, handlers, object, retval, seen>>

\* Line 20 behind a null check that answers false for a null handle.
Line20_null_check ==
    /\ pc = "line20"
    /\ IF object \in live
       THEN /\ reads' = <<"object->handlers", "handlers->dtor_obj">>
            /\ a' = (dtor_obj[handlers[object]] # zend_objects_destroy_object)
            /\ pc' = "line21"
       ELSE IF object = NULL
       THEN /\ reads' = <<>>
            /\ a' = FALSE
            /\ pc' = "line21"
       ELSE /\ reads' = <<"object->handlers">>
            /\ \/ pc' = "trap" /\ a' = a
               \/ pc' = "line21" /\ a' \in BOOLEAN
    /\ UNCHANGED <<heap, object, retval, seen>>

\* Line 20 that waits: the activation stays on the line.
Line20_retry ==
    /\ pc = "line20"
    /\ UNCHANGED vars

\* Line 20 that looks at a second slot of the handler table as well.
Line20_reads_free_obj ==
    /\ pc = "line20"
    /\ IF object \in live
       THEN /\ reads' = <<"object->handlers", "handlers->dtor_obj",
                          "handlers->free_obj">>
            /\ a' = (dtor_obj[handlers[object]] # zend_objects_destroy_object)
            /\ pc' = "line21"
       ELSE /\ reads' = <<"object->handlers">>
            /\ \/ pc' = "trap" /\ a' = a
               \/ pc' = "line21" /\ a' \in BOOLEAN
    /\ UNCHANGED <<heap, object, retval, seen>>

\* Line 20 comparing the table pointer with the standard table instead of
\* the slot with the standard handler.
Line20_table_identity ==
    /\ pc = "line20"
    /\ IF object \in live
       THEN /\ reads' = <<"object->handlers">>
            /\ a' = (handlers[object] # StdTable)
            /\ pc' = "line21"
       ELSE /\ reads' = <<"object->handlers">>
            /\ \/ pc' = "trap" /\ a' = a
               \/ pc' = "line21" /\ a' \in BOOLEAN
    /\ UNCHANGED <<heap, object, retval, seen>>

\* Line 20 that answers from the result of the object's previous call when
\* there is one.
Line20_cached ==
    /\ pc = "line20"
    /\ IF object \in live
       THEN /\ reads' = <<"object->handlers", "handlers->dtor_obj">>
            /\ a' = IF \E s \in seen : s.obj = object
                    THEN (CHOOSE s \in seen : s.obj = object).res
                    ELSE (dtor_obj[handlers[object]] # zend_objects_destroy_object)
            /\ pc' = "line21"
       ELSE /\ reads' = <<"object->handlers">>
            /\ \/ pc' = "trap" /\ a' = a
               \/ pc' = "line21" /\ a' \in BOOLEAN
    /\ UNCHANGED <<heap, object, retval, seen>>

\* bool a = object->handlers->dtor_obj != zend_objects_destroy_object;
\* A valid object: two dependent loads and a comparison of addresses.  A null
\* or dangling handle: the first load is undefined behaviour; the build
\* either traps or goes on with whatever the memory holds.
Line20 ==
    /\ pc = "line20"
    /\ IF object \in live
       THEN /\ reads' = <<"object->handlers", "handlers->dtor_obj">>
            /\ a' = (dtor_obj[handlers[object]] # zend_objects_destroy_object)
            /\ pc' = "line21"
       ELSE /\ reads' = <<"object->handlers">>
            /\ \/ pc' = "trap" /\ a' = a
               \/ pc' = "line21" /\ a' \in BOOLEAN
    /\ UNCHANGED <<heap, object, retval, seen>>

\* return a;
Line21 ==
    /\ pc = "line21"
    /\ retval' = a
    /\ pc' = "done"
    /\ UNCHANGED <<heap, object, a, reads, seen>>

Next ==
    \/ \E o \in Objects, t \in Tables : CreateObject(o, t)
    \/ \E o \in Objects : Release(o)
    \/ \E o \in Objects, t \in Tables : SetHandlers(o, t)
    \/ \E t \in Tables, f \in Handlers : SetDtor(t, f)
    \/ \E h \in Handles : Call(h)
    \/ Line20
    \/ Line21
    \/ Resume

Spec == Init /\ [][Next]_vars

\* A call that has started runs on: nothing else is scheduled while the
\* single thread is inside pib_init.
FairSpec == Spec /\ WF_vars(Line20) /\ WF_vars(Line21)

TypeOK ==
    /\ live \subseteq Objects
    /\ handlers \in [Objects -> Tables]
    /\ dtor_obj \in [Tables -> Handlers]
    /\ pc \in {"idle", "line20", "line21", "done", "trap"}
    /\ object \in Handles
    /\ a \in BOOLEAN
    /\ retval \in BOOLEAN
    /\ Len(reads) <= 2
    /\ Cardinality(seen) <= 1

\* ----------------------------------------------------------------- claims
\* The call has returned to the host, which has not gone on yet, and the
\* handle it passed is a valid object.
Returned == pc = "done" /\ object \in live

\* C1: for a valid object whose handlers->dtor_obj is
\* zend_objects_destroy_object, pib_init returns false.
C1_StandardHandlerReturnsFalse ==
    (Returned /\ DtorOf(object) = zend_objects_destroy_object) => retval = FALSE

\* The object's class has a table of its own whose dtor_obj is the standard
\* handler, and the call returned false.
C1_Witness ==
    /\ Returned
    /\ handlers[object] \in ClassTables
    /\ DtorOf(object) = zend_objects_destroy_object
    /\ retval = FALSE

\* C2: for a valid object whose handlers->dtor_obj is any handler other than
\* zend_objects_destroy_object, pib_init returns true; only the identity of
\* the handler counts.
C2_OverriddenHandlerReturnsTrue ==
    (Returned /\ DtorOf(object) # zend_objects_destroy_object) => retval = TRUE

\* The call returned true for the last of the custom handlers.
C2_Witness ==
    /\ Returned
    /\ DtorOf(object) = NumCustom
    /\ retval = TRUE

\* C3: pib_init is idempotent: a call on the object of the previous call,
\* whose handlers pointer and handler table are as they were then, returns
\* what that call returned (and so, call after call, what the first returned).
C3_Idempotent ==
    Returned =>
        \A s \in seen :
            (s.obj = object /\ s.table = handlers[object]
                /\ s.dtor = DtorOf(object))
                => retval = s.res

\* A second call on an unmodified object with an overridden handler returned
\* true as the first did.
C3_Witness ==
    /\ Returned
    /\ \E s \in seen :
          /\ s.obj = object
          /\ s.table = handlers[object]
          /\ s.dtor = DtorOf(object)
          /\ s.res = TRUE
    /\ retval = TRUE

\* C4: a call on a valid object has no side effect: no step of pib_init
\* changes the set of objects, any object's handlers pointer or any table's
\* dtor_obj.
C4_NoSideEffects ==
    [][(pc \in {"line20", "line21"} /\ object \in live)
          => (live' = live /\ handlers' = handlers
              /\ dtor_obj' = dtor_obj)]_vars

\* A call returned for an object with an overridden handler while another
\* object was alive.
C4_Witness ==
    /\ Returned
    /\ DtorOf(object) # zend_objects_destroy_object
    /\ live # {object}

\* C5 as claimed: a call with a null or invalid handle does not return a
\* boolean; it dereferences the handle; a call with a valid handle returns a
\* boolean and never ends in an error.
C5_InvalidHandleNeverReturns ==
    /\ pc = "done" => object \in live
    /\ (pc \in {"line21", "done", "trap"} /\ object \notin live)
          => reads = <<"object->handlers">>
    /\ pc = "trap" => object \notin live

\* C5 as amended: there is no null check, so a call with a null or invalid
\* handle dereferences the handle, and then either traps or returns some
\* boolean; a call with a valid handle never traps and returns a boolean.
C5_NoCheckNoError ==
    /\ (pc \in {"line21", "done", "trap"} /\ object \notin live)
          => reads = <<"object->handlers">>
    /\ pc = "trap" => object \notin live
    /\ pc = "done" => retval \in BOOLEAN

\* A call with the null handle dereferenced it and returned true.
C5_Witness ==
    /\ pc = "done"
    /\ object = NULL
    /\ reads = <<"object->handlers">>
    /\ retval = TRUE

\* C6: pib_init is total on valid input: a call with a valid object always
\* gets to its return.
C6_Total ==
    (pc = "line20" /\ object \in live) ~> (pc = "done" /\ object \in live)

\* A call with a valid object returned with every object slot in use.
C6_Witness ==
    /\ Returned
    /\ live = Objects

\* C7 as claimed: a call on a valid object makes exactly one load of runtime
\* state, that of the dtor_obj slot.
C7_ExactlyOneRead ==
    (pc \in {"line21", "done"} /\ object \in live)
        => reads = <<"handlers->dtor_obj">>

\* C7 as amended: a call on a valid object makes exactly two loads of runtime
\* state: the object's handlers pointer and, through it, the dtor_obj slot.
C7_TwoDependentReads ==
    (pc \in {"line21", "done"} /\ object \in live)
        => reads = <<"object->handlers", "handlers->dtor_obj">>

\* Line 20 has run for a valid object and the return has not.
C7_Witness ==
    /\ pc = "line21"
    /\ object \in live
    /\ Len(reads) = 2

\* C8: the result depends on handlers->dtor_obj alone: a call on a valid
\* object that finds the dtor_obj the previous call found, on whatever
\* object, returns the boolean that call returned.
C8_DependsOnlyOnDtor ==
    Returned =>
        \A s \in seen : s.dtor = DtorOf(object) => retval = s.res

\* Two objects with different handler tables, whose other slots differ and
\* whose dtor_obj agree, got the same result.
C8_Witness ==
    /\ Returned
    /\ \E s \in seen :
          /\ s.obj # object
          /\ free_obj(s.table) # free_obj(handlers[object])
          /\ s.dtor = DtorOf(object)
          /\ s.res = retval

\* C9: nothing is cached between calls: each call returns true exactly when
\* the handler installed at that moment differs from the standard one; when
\* that has changed since the object's previous call, so has the result.
C9_NoCaching ==
    Returned =>
        /\ retval = (DtorOf(object) # zend_objects_destroy_object)
        /\ \A s \in seen :
              (s.obj = object
               /\ (s.dtor = zend_objects_destroy_object)
                      # (DtorOf(object) = zend_objects_destroy_object))
                  => retval # s.res

\* The handler was overridden, a call returned true, the handler was
\* restored and the next call returned false.
C9_Witness ==
    /\ Returned
    /\ \E s \in seen :
          s.obj = object /\ s.res = TRUE /\ s.table = handlers[object]
    /\ retval = FALSE
====
